---- MODULE Spec2Model ----
(***************************************************************************)
(* One workflow session of the product-discovery backend: the session      *)
(* record kept by SessionManager (backend/session_manager.py), the         *)
(* pipeline run started for it on a background thread                      *)
(* (backend/workflow_async.py), and the HTTP handlers of backend/main.py   *)
(* that read and resolve it while the run is in progress.                  *)
(*                                                                         *)
(* Every SessionManager method runs under the manager's lock, so a method  *)
(* is one atomic step with respect to other methods.  get_session returns  *)
(* the live record, not a copy: code that reads fields of the returned     *)
(* record does so without the lock.  The specification SpecFine writes the *)
(* fields of a method one assignment at a time, so that such unlocked      *)
(* reads can fall between two assignments of one method.                   *)
(***************************************************************************)
EXTENDS Integers, Sequences, FiniteSets, TLC

\* ---------------------------------------------------------------- bounds
\* Largest candidate list a product or variant search returns.
MaxCand == 2
\* timeout_seconds of the gate waits, counted in one-second polls.
GateTimeout == 2
\* Confirmation requests the clients issue during one run.
MaxCalls == 2
\* Largest URL list the discovery collaborator returns.
MaxUrls == 1
\* Largest list of offers the ranking stage is given.
MaxOffers == 3
\* Largest list of offers the pricing stage is given.
MaxPriced == 2

\* Session ids in the registry that cleanup_old_sessions sweeps: the loop
\* treats each record on its own, so one removed beside one kept is enough.
SessionIds == {"s1", "s2"}
\* session_timeout, in ticks of the cleanup clock.
SessionTimeout == 2
\* cleanup_delay_minutes of mark_for_cleanup, in ticks of the cleanup clock.
CleanupDelay == 1
\* Last tick of the cleanup clock: one past the timeout.
MaxClock == SessionTimeout + 1
\* Largest list of URLs given to the price enrichment.
MaxScraped == 2

\* Optional[T]: None, or a value.
None == <<>>
Some(x) == <<x>>

Gates == {"product", "variant", "url_extraction"}

VARIABLES
    session,         \* the WorkflowSession record of the one session
    pending,         \* assignments of the method holding the lock, not yet done
    pc,              \* position of the pipeline run
    loc,             \* local variables of the pipeline run
    stage_errors,    \* history: the stages that raised or returned an error
    hgate,           \* confirm handlers: the gate of the request in hand, or "none"
    resp,            \* the response the confirm handlers sent last
    calls,           \* history: confirmation requests issued so far
    refused_open,    \* history: gates that refused a request while open
    spc, last_log_count, new_logs, received, terminal,   \* stream_progress
    rpc, snap, seen, \* get_workflow_status / get_results reader
    cpc,             \* per-unit pricing and ranking: position in the two stages
    enriched_urls,   \* the offers the pricing stage is given
    updated_urls,    \* the offers as the pricing stage passes them on
    ranked_urls,     \* the ranking stage's output
    reranked_urls,   \* the output of ranking ranked_urls once more
    registered,      \* the session's id is a key of SessionManager.sessions
    evicted_at,      \* history: the run's position when the record was removed
    terminal_data,   \* the payload of the stream's terminal event
    sessions, now,   \* cleanup_old_sessions: a registry of records, and the clock
    swept,           \* history: the registry and clock the last cleanup found
    original_urls,   \* _merge_data: the discovered URLs
    apify_results    \* _merge_data: the items the scrape batches returned

pipeVars == <<pc, loc, stage_errors>>
handlerVars == <<hgate, resp, calls, refused_open>>
streamVars == <<spc, last_log_count, new_logs, received, terminal, terminal_data>>
readerVars == <<rpc, snap, seen>>
calcVars == <<cpc, enriched_urls, updated_urls, ranked_urls, reranked_urls>>
sweepVars == <<registered, evicted_at>>
cleanupVars == <<sessions, now, swept>>
mergeVars == <<original_urls, apify_results>>
auxVars == <<sweepVars, cleanupVars, mergeVars>>
vars == <<session, pending, pipeVars, handlerVars, streamVars, readerVars, calcVars, auxVars>>

\* ------------------------------------------------------ session_manager.py

\* WorkflowSession as create_session builds it: the dataclass defaults.
\* last_updated counts the mutations, standing for datetime.now().
WorkflowSession(input_type) ==
    [ input_type |-> input_type,
      last_updated |-> 0,
      current_stage |-> "initializing",
      status |-> "running",
      progress_logs |-> <<>>,
      needs_product_confirmation |-> FALSE,
      product_candidates |-> <<>>,
      confirmed_product_index |-> None,
      needs_variant_confirmation |-> FALSE,
      variant_candidates |-> <<>>,
      confirmed_variant_index |-> None,
      needs_url_extraction_confirmation |-> FALSE,
      extracted_details |-> None,
      url_extraction_confirmed |-> FALSE,
      final_results |-> None,
      error_message |-> None ]

\* One assignment session.<field> = value.
ApplyWrite(s, w) ==
    [s EXCEPT ![w[1]] = w[2]]

RECURSIVE ApplyAll(_, _)
ApplyAll(s, W) ==
    IF W = <<>> THEN s ELSE ApplyAll(ApplyWrite(s, Head(W)), Tail(W))

\* Each method below is the sequence of assignments it makes, in order,
\* computed from the record s it finds when it takes the lock.

Touch(s) ==
    <<"last_updated", s.last_updated + 1>>

update_session(s, kwargs) ==
    SelectSeq(kwargs, LAMBDA kv : kv[1] \in DOMAIN s) \o <<Touch(s)>>

\* An add_progress_log that puts the entry in front; C14 tells it apart.
add_progress_log_in_front(s, log_entry) ==
    << <<"progress_logs",
         <<log_entry @@ [timestamp |-> s.last_updated + 1]>> \o s.progress_logs>>,
       Touch(s) >>

add_progress_log(s, log_entry) ==
    << <<"progress_logs",
         Append(s.progress_logs,
                log_entry @@ [timestamp |-> s.last_updated + 1])>>,
       Touch(s) >>

set_product_confirmation_needed(s, product_candidates) ==
    << <<"status", "waiting_confirmation">>,
       <<"needs_product_confirmation", TRUE>>,
       <<"product_candidates", product_candidates>>,
       <<"current_stage", "product_confirmation">>,
       Touch(s) >>

\* A bounds test that is off by one at the upper end; C7 tells it apart.
confirm_product_ok_inclusive(s, product_index) ==
    /\ s.needs_product_confirmation
    /\ 0 <= product_index
    /\ product_index <= Len(s.product_candidates)

confirm_product_ok(s, product_index) ==
    /\ s.needs_product_confirmation
    /\ 0 <= product_index
    /\ product_index < Len(s.product_candidates)

\* A confirm_product that leaves the needs flag set; C11 tells it apart.
confirm_product_keeps_flag(s, product_index) ==
    IF confirm_product_ok(s, product_index)
    THEN << <<"confirmed_product_index", Some(product_index)>>,
            <<"status", "running">>,
            Touch(s) >>
    ELSE <<>>

confirm_product(s, product_index) ==
    IF confirm_product_ok(s, product_index)
    THEN << <<"confirmed_product_index", Some(product_index)>>,
            <<"needs_product_confirmation", FALSE>>,
            <<"status", "running">>,
            Touch(s) >>
    ELSE <<>>

set_variant_confirmation_needed(s, variant_candidates) ==
    << <<"status", "waiting_confirmation">>,
       <<"needs_variant_confirmation", TRUE>>,
       <<"variant_candidates", variant_candidates>>,
       <<"current_stage", "variant_confirmation">>,
       Touch(s) >>

confirm_variant_ok(s, variant_index) ==
    /\ s.needs_variant_confirmation
    /\ 0 <= variant_index
    /\ variant_index < Len(s.variant_candidates)

confirm_variant(s, variant_index) ==
    IF confirm_variant_ok(s, variant_index)
    THEN << <<"confirmed_variant_index", Some(variant_index)>>,
            <<"needs_variant_confirmation", FALSE>>,
            <<"status", "running">>,
            Touch(s) >>
    ELSE <<>>

set_url_extraction_confirmation_needed(s, extracted_details) ==
    << <<"status", "waiting_confirmation">>,
       <<"needs_url_extraction_confirmation", TRUE>>,
       <<"extracted_details", Some(extracted_details)>>,
       <<"current_stage", "url_extraction_confirmation">>,
       Touch(s) >>

confirm_url_extraction_ok(s, confirmed) ==
    s.needs_url_extraction_confirmation

confirm_url_extraction(s, confirmed) ==
    IF confirm_url_extraction_ok(s, confirmed)
    THEN << <<"url_extraction_confirmed", confirmed>>,
            <<"needs_url_extraction_confirmation", FALSE>> >>
         \o (IF confirmed
             THEN << <<"status", "running">> >>
             ELSE << <<"status", "failed">>,
                     <<"error_message", Some("User rejected URL extraction")>> >>)
         \o <<Touch(s)>>
    ELSE <<>>

\* A set_completed that stores the results without the status; C12 tells it
\* apart.
set_completed_without_status(s, final_results) ==
    << <<"current_stage", "complete">>,
       <<"final_results", Some(final_results)>>,
       Touch(s) >>

set_completed(s, final_results) ==
    << <<"status", "completed">>,
       <<"current_stage", "complete">>,
       <<"final_results", Some(final_results)>>,
       Touch(s) >>

set_failed(s, error_message) ==
    << <<"status", "failed">>,
       <<"error_message", Some(error_message)>>,
       Touch(s) >>

\* The manager's lock is free when no method is part-way through.
LockFree ==
    pending = <<>>

\* A method call with assignments W: at once, or (fine) one at a time with
\* the lock held until the last one is done.  Every method looks the record
\* up with sessions.get(session_id) and does nothing when it is not there.
Registry(W, fine) ==
    IF ~registered
    THEN UNCHANGED <<session, pending>>
    ELSE IF fine
    THEN /\ pending' = W
         /\ UNCHANGED session
    ELSE /\ session' = ApplyAll(session, W)
         /\ UNCHANGED pending

\* -- mark_for_cleanup, cleanup_old_sessions: the registry as a function from
\* -- session ids to the fields of the records the cleanup reads

Statuses ==
    {"running", "waiting_confirmation", "completed", "failed"}

\* A record as create_session leaves it, in any status the run gives it.
CleanupRecord(status) ==
    [status |-> status, last_updated |-> 0,
     marked_for_cleanup |-> FALSE, cleanup_after |-> None]

mark_for_cleanup(S, sid, t) ==
    IF sid \in DOMAIN S
    THEN [S EXCEPT ![sid].marked_for_cleanup = TRUE,
                   ![sid].cleanup_after = Some(t + CleanupDelay)]
    ELSE S

\* Rule 1: marked for cleanup, and the cleanup time is reached.
MarkedCleanup(rec, t) ==
    /\ rec.marked_for_cleanup
    /\ rec.cleanup_after # None
    /\ t >= rec.cleanup_after[1]

\* A rule 2 that removes a record already at the timeout; C23 tells it apart.
InactiveTimeout_at_timeout(rec, t) ==
    /\ rec.status \in {"running", "waiting_confirmation"}
    /\ t - rec.last_updated >= SessionTimeout

\* Rule 2: running or waiting, and inactive for longer than the timeout.
InactiveTimeout(rec, t) ==
    /\ rec.status \in {"running", "waiting_confirmation"}
    /\ t - rec.last_updated > SessionTimeout

cleanup_old_sessions(S, t) ==
    LET sessions_to_remove ==
            {sid \in DOMAIN S : MarkedCleanup(S[sid], t) \/ InactiveTimeout(S[sid], t)}
    IN  [sid \in DOMAIN S \ sessions_to_remove |-> S[sid]]

cleanupRest ==
    <<session, pending, pipeVars, handlerVars, streamVars, readerVars, calcVars,
      sweepVars, mergeVars>>

\* datetime.now() moves on.
ClockTick ==
    /\ swept = None
    /\ now < MaxClock
    /\ now' = now + 1
    /\ UNCHANGED <<sessions, swept, cleanupRest>>

\* Any mutator of a record: last_updated = datetime.now().
SessionTouched ==
    /\ swept = None
    /\ \E sid \in DOMAIN sessions :
          /\ sessions[sid].last_updated # now
          /\ sessions' = [sessions EXCEPT ![sid].last_updated = now]
    /\ UNCHANGED <<now, swept, cleanupRest>>

MarkForCleanup ==
    /\ swept = None
    /\ \E sid \in DOMAIN sessions :
          /\ ~sessions[sid].marked_for_cleanup
          /\ sessions' = mark_for_cleanup(sessions, sid, now)
    /\ UNCHANGED <<now, swept, cleanupRest>>

\* One call of cleanup_old_sessions; swept keeps what it found.
Cleanup ==
    /\ swept = None
    /\ swept' = Some([sessions |-> sessions, now |-> now])
    /\ sessions' = cleanup_old_sessions(sessions, now)
    /\ UNCHANGED <<now, cleanupRest>>

\* ------------------------------------------------------ workflow_async.py

\* The log entry a stage passes to add_progress_log.
Entry(stage, status) ==
    [stage |-> stage, status |-> status]

\* A collaborator's list of n candidates; candidate i sits at index i - 1.
Cands(n) ==
    [i \in 1..n |-> i]

\* A selected variant: {"type": ..., "value": ...}.
Variant(type, value) ==
    [type |-> type, value |-> value]

LocInit ==
    [ has_variant |-> FALSE,
      products_found |-> <<>>,
      confirmed_product |-> None,
      variants |-> <<>>,
      selected_variant |-> None,
      urls |-> <<>>,
      ranked_urls |-> <<>>,
      gate |-> "none",
      elapsed |-> 0 ]

\* needs_<gate>_confirmation of the record.
NeedsFlag(s, g) ==
    CASE g = "product" -> s.needs_product_confirmation
      [] g = "variant" -> s.needs_variant_confirmation
      [] g = "url_extraction" -> s.needs_url_extraction_confirmation

TimeoutMessage(g) ==
    CASE g = "product" -> "Product confirmation timeout"
      [] g = "variant" -> "Variant confirmation timeout"
      [] g = "url_extraction" -> "URL extraction confirmation timeout"

\* Where the run continues when _wait_for_<gate>_confirmation returns.
AfterWait(g) ==
    CASE g = "product" -> "k_product_after"
      [] g = "variant" -> "k_variant_after"
      [] g = "url_extraction" -> "u_after"

\* A loop condition that gives up one poll early; C8 tells it apart.
WaitContinues_early(elapsed) ==
    elapsed + 1 < GateTimeout

\* A loop condition without the timeout; C27 tells it apart.
WaitContinues_unbounded(elapsed) ==
    elapsed >= 0

\* The loop condition of the waits: time.time() - start_time < timeout_seconds.
WaitContinues(elapsed) ==
    elapsed < GateTimeout

\* The wait loop's exits on what get_session returned.  The url-extraction
\* wait has no exit on status == "failed".
WaitReturns(s, g) ==
    \/ ~NeedsFlag(s, g)
    \/ g # "url_extraction" /\ s.status = "failed"

envVars == <<handlerVars, streamVars, readerVars, calcVars, auxVars>>

\* A step of the run that is one SessionManager call with assignments W.
Call(from, to, W, fine) ==
    /\ pc = from
    /\ LockFree
    /\ pc' = to
    /\ Registry(W, fine)
    /\ UNCHANGED envVars

\* A step that leaves the run's locals alone and is no stage error.
Plain ==
    UNCHANGED <<loc, stage_errors>>

\* A stage raised or returned an error, reported with message msg.
StageError(stage, msg) ==
    /\ stage_errors' = Append(stage_errors, [stage |-> stage, message |-> msg])
    /\ UNCHANGED loc

\* -- _run_keyword_workflow

KParseStarted(fine) ==
    /\ session.input_type = "keyword"
    /\ Call("start", "k_parse_stage",
            add_progress_log(session, Entry("parsing", "started")), fine)
    /\ Plain

KParseStage(fine) ==
    /\ Call("k_parse_stage", "k_parse_call",
            update_session(session, << <<"current_stage", "parsing">> >>), fine)
    /\ Plain

KParseOk(fine) ==
    /\ Call("k_parse_call", "k_search_log",
            add_progress_log(session, Entry("parsing", "success")), fine)
    /\ \E hv \in BOOLEAN : loc' = [loc EXCEPT !.has_variant = hv]
    /\ UNCHANGED stage_errors

KParseRaise(fine) ==
    /\ Call("k_parse_call", "done",
            set_failed(session, "Parsing failed"), fine)
    /\ StageError("parsing", "Parsing failed")

KSearchStarted(fine) ==
    /\ Call("k_search_log", "k_search_stage",
            add_progress_log(session, Entry("product_search", "started")), fine)
    /\ Plain

KSearchStage(fine) ==
    /\ Call("k_search_stage", "k_search_call",
            update_session(session, << <<"current_stage", "product_search">> >>), fine)
    /\ Plain

KSearchOk(fine) ==
    /\ Call("k_search_call", "k_select",
            add_progress_log(session, Entry("product_search", "success")), fine)
    /\ \E n \in 0..MaxCand : loc' = [loc EXCEPT !.products_found = Cands(n)]
    /\ UNCHANGED stage_errors

KSearchRaise(fine) ==
    /\ Call("k_search_call", "done",
            set_failed(session, "Product search failed"), fine)
    /\ StageError("product_search", "Product search failed")

KNoProducts(fine) ==
    /\ Len(loc.products_found) = 0
    /\ Call("k_select", "done", set_failed(session, "No products found"), fine)
    /\ StageError("product_search", "No products found")

\* A selection that opens the product gate on a single candidate as well;
\* C20 tells it apart.
KAutoProduct_gated(fine) ==
    /\ Len(loc.products_found) = 1
    /\ Call("k_select", "k_product_waiting",
            set_product_confirmation_needed(session, loc.products_found), fine)
    /\ Plain

KAutoProduct(fine) ==
    /\ Len(loc.products_found) = 1
    /\ Call("k_select", "k_variant",
            add_progress_log(session, Entry("product_confirmation", "success")), fine)
    /\ loc' = [loc EXCEPT !.confirmed_product = Some(loc.products_found[1])]
    /\ UNCHANGED stage_errors

KProductGate(fine) ==
    /\ Len(loc.products_found) > 1
    /\ Call("k_select", "k_product_waiting",
            set_product_confirmation_needed(session, loc.products_found), fine)
    /\ Plain

\* The "waiting" entry, then _wait_for_product_confirmation takes start_time.
KProductWaiting(fine) ==
    /\ Call("k_product_waiting",
            IF WaitContinues(0) THEN "wait_poll" ELSE "wait_timeout",
            add_progress_log(session, Entry("product_confirmation", "waiting")), fine)
    /\ loc' = [loc EXCEPT !.gate = "product", !.elapsed = 0]
    /\ UNCHANGED stage_errors

\* -- _wait_for_product_confirmation, _wait_for_variant_confirmation,
\* -- _wait_for_url_extraction_confirmation: one loop, three copies.

\* get_session and the checks of one iteration; the wait returns when the
\* record is gone.
WaitPoll ==
    /\ pc = "wait_poll"
    /\ LockFree
    /\ pc' = IF ~registered \/ WaitReturns(session, loc.gate)
             THEN AfterWait(loc.gate) ELSE "wait_sleep"
    /\ UNCHANGED <<session, pending, loc, stage_errors, envVars>>

\* time.sleep(1), then the loop condition.
WaitSleep ==
    /\ pc = "wait_sleep"
    /\ loc' = [loc EXCEPT !.elapsed = loc.elapsed + 1]
    /\ pc' = IF WaitContinues(loc.elapsed + 1) THEN "wait_poll" ELSE "wait_timeout"
    /\ UNCHANGED <<session, pending, stage_errors, envVars>>

\* The loop ran out: set_failed with the gate's timeout message.
WaitTimeout(fine) ==
    /\ Call("wait_timeout", AfterWait(loc.gate),
            set_failed(session, TimeoutMessage(loc.gate)), fine)
    /\ Plain

\* A run that goes on with the first candidate whatever index was
\* confirmed; C29 tells it apart.
KProductAfter_first(fine) ==
    /\ pc = "k_product_after"
    /\ IF ~registered \/ session.status = "failed"
       THEN /\ Call("k_product_after", "done", <<>>, fine)
            /\ Plain
       ELSE /\ Call("k_product_after", "k_variant",
                    add_progress_log(session, Entry("product_confirmation", "success")), fine)
            /\ loc' = [loc EXCEPT !.confirmed_product = Some(loc.products_found[1])]
            /\ UNCHANGED stage_errors

\* After the product wait: get_session, return when failed, else take the
\* candidate at confirmed_product_index and log the selection.  Indexing
\* with None raises inside the stage's try block.
KProductAfter(fine) ==
    /\ pc = "k_product_after"
    /\ IF ~registered \/ session.status = "failed"
       THEN /\ Call("k_product_after", "done", <<>>, fine)
            /\ Plain
       ELSE IF session.confirmed_product_index = None
       THEN /\ Call("k_product_after", "done",
                    set_failed(session, "Product search failed"), fine)
            /\ StageError("product_search", "Product search failed")
       ELSE /\ Call("k_product_after", "k_variant",
                    add_progress_log(session, Entry("product_confirmation", "success")), fine)
            /\ loc' = [loc EXCEPT !.confirmed_product =
                         Some(loc.products_found[session.confirmed_product_index[1] + 1])]
            /\ UNCHANGED stage_errors

KVariantSkipped(fine) ==
    /\ loc.has_variant
    /\ Call("k_variant", "c_discovery_log",
            add_progress_log(session, Entry("variant_extraction", "skipped")), fine)
    /\ loc' = [loc EXCEPT !.selected_variant = Some(Variant("user_specified", 0))]
    /\ UNCHANGED stage_errors

KVariantStarted(fine) ==
    /\ ~loc.has_variant
    /\ Call("k_variant", "k_variant_stage",
            add_progress_log(session, Entry("variant_extraction", "started")), fine)
    /\ Plain

\* A variant stage that announces itself as the product search; C15 tells it
\* apart.
KVariantStage_as_search(fine) ==
    /\ Call("k_variant_stage", "k_variant_call",
            update_session(session, << <<"current_stage", "product_search">> >>), fine)
    /\ Plain

KVariantStage(fine) ==
    /\ Call("k_variant_stage", "k_variant_call",
            update_session(session, << <<"current_stage", "variant_extraction">> >>), fine)
    /\ Plain

KVariantRaise(fine) ==
    /\ Call("k_variant_call", "done",
            set_failed(session, "Variant extraction failed"), fine)
    /\ StageError("variant_extraction", "Variant extraction failed")

KVariantNone(fine) ==
    /\ Call("k_variant_call", "c_discovery_log",
            add_progress_log(session, Entry("variant_extraction", "success")), fine)
    /\ loc' = [loc EXCEPT !.variants = Cands(0), !.selected_variant = Some(Variant("standard", 0))]
    /\ UNCHANGED stage_errors

KVariantAuto(fine) ==
    /\ Call("k_variant_call", "c_discovery_log",
            add_progress_log(session, Entry("variant_extraction", "success")), fine)
    /\ loc' = [loc EXCEPT !.variants = Cands(1), !.selected_variant = Some(Variant("found", 1))]
    /\ UNCHANGED stage_errors

KVariantGate(fine) ==
    /\ \E n \in 2..MaxCand :
          /\ Call("k_variant_call", "k_variant_waiting",
                  set_variant_confirmation_needed(session, Cands(n)), fine)
          /\ loc' = [loc EXCEPT !.variants = Cands(n)]
    /\ UNCHANGED stage_errors

KVariantWaiting(fine) ==
    /\ Call("k_variant_waiting",
            IF WaitContinues(0) THEN "wait_poll" ELSE "wait_timeout",
            add_progress_log(session, Entry("variant_confirmation", "waiting")), fine)
    /\ loc' = [loc EXCEPT !.gate = "variant", !.elapsed = 0]
    /\ UNCHANGED stage_errors

KVariantAfter(fine) ==
    /\ pc = "k_variant_after"
    /\ IF ~registered \/ session.status = "failed"
       THEN /\ Call("k_variant_after", "done", <<>>, fine)
            /\ Plain
       ELSE IF session.confirmed_variant_index = None
       THEN /\ Call("k_variant_after", "done",
                    set_failed(session, "Variant extraction failed"), fine)
            /\ StageError("variant_extraction", "Variant extraction failed")
       ELSE /\ Call("k_variant_after", "c_discovery_log",
                    add_progress_log(session, Entry("variant_confirmation", "success")), fine)
            /\ loc' = [loc EXCEPT !.selected_variant =
                         Some(Variant("found",
                                      loc.variants[session.confirmed_variant_index[1] + 1]))]
            /\ UNCHANGED stage_errors

\* -- _run_url_workflow

UExtractStarted(fine) ==
    /\ session.input_type = "url"
    /\ Call("start", "u_extract_stage",
            add_progress_log(session, Entry("url_extraction", "started")), fine)
    /\ Plain

UExtractStage(fine) ==
    /\ Call("u_extract_stage", "u_extract_call",
            update_session(session, << <<"current_stage", "url_extraction">> >>), fine)
    /\ Plain

UExtractRaise(fine) ==
    /\ Call("u_extract_call", "done",
            set_failed(session, "URL extraction failed"), fine)
    /\ StageError("url_extraction", "URL extraction failed")

\* extract_from_url returned success = False.
UExtractUnsuccessful(fine) ==
    /\ Call("u_extract_call", "done",
            set_failed(session, "Extraction failed"), fine)
    /\ StageError("url_extraction", "Extraction failed")

UExtractGate(fine) ==
    /\ Call("u_extract_call", "u_waiting",
            set_url_extraction_confirmation_needed(session, "extracted"), fine)
    /\ Plain

UExtractWaiting(fine) ==
    /\ Call("u_waiting",
            IF WaitContinues(0) THEN "wait_poll" ELSE "wait_timeout",
            add_progress_log(session, Entry("url_extraction_confirmation", "waiting")), fine)
    /\ loc' = [loc EXCEPT !.gate = "url_extraction", !.elapsed = 0]
    /\ UNCHANGED stage_errors

\* A test after the url-extraction wait that takes every answer for a
\* confirmation; C21 tells it apart.
UAfter_unchecked ==
    /\ pc = "u_after"
    /\ LockFree
    /\ pc' = "u_confirmed"
    /\ UNCHANGED <<session, pending, loc, stage_errors, envVars>>

\* After the url-extraction wait: get_session and the test of status and
\* url_extraction_confirmed.  The set_failed or add_progress_log it leads to
\* takes the lock again, so it is a step of its own.
UAfter ==
    /\ pc = "u_after"
    /\ LockFree
    /\ pc' = IF ~registered \/ session.status = "failed"
                   \/ ~session.url_extraction_confirmed
             THEN "u_rejected" ELSE "u_confirmed"
    /\ UNCHANGED <<session, pending, loc, stage_errors, envVars>>

URejected(fine) ==
    /\ Call("u_rejected", "done", set_failed(session, "User rejected extraction"), fine)
    /\ Plain

UConfirmed(fine) ==
    /\ Call("u_confirmed", "c_discovery_log",
            add_progress_log(session, Entry("url_extraction_confirmation", "success")), fine)
    /\ loc' = [loc EXCEPT !.selected_variant = Some(Variant("extracted", 0))]
    /\ UNCHANGED stage_errors

\* -- _continue_workflow

CDiscoveryStarted(fine) ==
    /\ Call("c_discovery_log", "c_discovery_stage",
            add_progress_log(session, Entry("url_discovery", "started")), fine)
    /\ Plain

CDiscoveryStage(fine) ==
    /\ Call("c_discovery_stage", "c_discovery_call",
            update_session(session, << <<"current_stage", "url_discovery">> >>), fine)
    /\ Plain

CDiscoveryRaise(fine) ==
    /\ Call("c_discovery_call", "done",
            set_failed(session, "URL discovery failed"), fine)
    /\ StageError("url_discovery", "URL discovery failed")

CDiscoveryOk(fine) ==
    /\ Call("c_discovery_call", "c_discovery_check",
            add_progress_log(session, Entry("url_discovery", "success")), fine)
    /\ \E n \in 0..MaxUrls : loc' = [loc EXCEPT !.urls = Cands(n)]
    /\ UNCHANGED stage_errors

CDiscoveryEmpty(fine) ==
    /\ Len(loc.urls) = 0
    /\ Call("c_discovery_check", "done", set_failed(session, "No URLs found"), fine)
    /\ StageError("url_discovery", "No URLs found")

CScrapingStarted(fine) ==
    /\ Len(loc.urls) # 0
    /\ Call("c_discovery_check", "c_scraping_stage",
            add_progress_log(session, Entry("price_scraping", "started")), fine)
    /\ Plain

CScrapingStage(fine) ==
    /\ Call("c_scraping_stage", "c_scraping_call",
            update_session(session, << <<"current_stage", "price_scraping">> >>), fine)
    /\ Plain

\* A price-scraping handler that logs a warning and goes on, as the
\* per-unit-pricing handler does; C10 tells it apart.
CScrapingRaise_warning(fine) ==
    /\ Call("c_scraping_call", "c_pricing_log",
            add_progress_log(session, Entry("price_scraping", "warning")), fine)
    /\ StageError("price_scraping", "Price scraping failed")

CScrapingRaise(fine) ==
    /\ Call("c_scraping_call", "done",
            set_failed(session, "Price scraping failed"), fine)
    /\ StageError("price_scraping", "Price scraping failed")

CScrapingOk(fine) ==
    /\ Call("c_scraping_call", "c_pricing_log",
            add_progress_log(session, Entry("price_scraping", "success")), fine)
    /\ Plain

CPricingStarted(fine) ==
    /\ Call("c_pricing_log", "c_pricing_stage",
            add_progress_log(session, Entry("per_unit_pricing", "started")), fine)
    /\ Plain

CPricingStage(fine) ==
    /\ Call("c_pricing_stage", "c_pricing_call",
            update_session(session, << <<"current_stage", "per_unit_pricing">> >>), fine)
    /\ Plain

CPricingOk(fine) ==
    /\ Call("c_pricing_call", "c_ranking_log",
            add_progress_log(session, Entry("per_unit_pricing", "success")), fine)
    /\ Plain

\* The stage's except branch: a "warning" entry, and the run goes on with
\* the offers as enrichment returned them.
CPricingRaise(fine) ==
    /\ Call("c_pricing_call", "c_ranking_log",
            add_progress_log(session, Entry("per_unit_pricing", "warning")), fine)
    /\ StageError("per_unit_pricing", "Warning")

CRankingStarted(fine) ==
    /\ Call("c_ranking_log", "c_ranking_stage",
            add_progress_log(session, Entry("ranking", "started")), fine)
    /\ Plain

CRankingStage(fine) ==
    /\ Call("c_ranking_stage", "c_ranking_call",
            update_session(session, << <<"current_stage", "ranking">> >>), fine)
    /\ Plain

CRankingOk(fine) ==
    /\ Call("c_ranking_call", "c_complete",
            add_progress_log(session, Entry("ranking", "success")), fine)
    /\ loc' = [loc EXCEPT !.ranked_urls = loc.urls]
    /\ UNCHANGED stage_errors

CRankingRaise(fine) ==
    /\ Call("c_ranking_call", "c_complete",
            add_progress_log(session, Entry("ranking", "warning")), fine)
    /\ loc' = [loc EXCEPT !.ranked_urls = loc.urls]
    /\ stage_errors' = Append(stage_errors, [stage |-> "ranking", message |-> "Warning"])

CSetCompleted(fine) ==
    /\ Call("c_complete", "c_complete_log", set_completed(session, loc.ranked_urls), fine)
    /\ Plain

CCompleteLog(fine) ==
    /\ Call("c_complete_log", "done",
            add_progress_log(session, Entry("complete", "success")), fine)
    /\ Plain

\* -- SessionManager.cleanup_old_sessions, called while the run is in progress

\* The positions at which the run is inside a call of a collaborator: the
\* parser, the product and variant searches, the URL extraction, the URL
\* discovery, the price scraper and the pricing agent.
CollaboratorCalls ==
    {"k_parse_call", "k_search_call", "k_variant_call", "u_extract_call",
     "c_discovery_call", "c_scraping_call", "c_pricing_call"}

\* The cleanup finds the record running or waiting and inactive for longer
\* than the session timeout, and deletes it from the registry.  The run has
\* no clock in this model: how long a collaborator call or a wait lasts is
\* left open, so the cleanup may come during any of them.
Evict ==
    /\ registered
    /\ LockFree
    /\ pc \in CollaboratorCalls \cup {"wait_poll", "wait_sleep"}
    /\ session.status \in {"running", "waiting_confirmation"}
    /\ registered' = FALSE
    /\ evicted_at' = pc
    /\ UNCHANGED <<session, pending, pipeVars, handlerVars, streamVars, readerVars,
                   calcVars, cleanupVars, mergeVars>>

Unattended(fine) ==
    \/ KParseStarted(fine) \/ KParseStage(fine) \/ KParseOk(fine) \/ KParseRaise(fine)
    \/ KSearchStarted(fine) \/ KSearchStage(fine) \/ KSearchOk(fine) \/ KSearchRaise(fine)
    \/ KNoProducts(fine) \/ KAutoProduct(fine) \/ KProductGate(fine)
    \/ KProductWaiting(fine) \/ KProductAfter(fine)
    \/ KVariantSkipped(fine) \/ KVariantStarted(fine) \/ KVariantStage(fine)
    \/ KVariantRaise(fine) \/ KVariantNone(fine) \/ KVariantAuto(fine)
    \/ KVariantGate(fine) \/ KVariantWaiting(fine) \/ KVariantAfter(fine)
    \/ WaitPoll \/ WaitSleep \/ WaitTimeout(fine)
    \/ UExtractStarted(fine) \/ UExtractStage(fine) \/ UExtractRaise(fine)
    \/ UExtractUnsuccessful(fine) \/ UExtractGate(fine) \/ UExtractWaiting(fine)
    \/ UAfter \/ URejected(fine)
    \/ CDiscoveryStarted(fine) \/ CDiscoveryStage(fine) \/ CDiscoveryRaise(fine)
    \/ CDiscoveryOk(fine) \/ CDiscoveryEmpty(fine)
    \/ CScrapingStarted(fine) \/ CScrapingStage(fine) \/ CScrapingRaise(fine)
    \/ CScrapingOk(fine)
    \/ CPricingStarted(fine) \/ CPricingStage(fine) \/ CPricingOk(fine)
    \/ CPricingRaise(fine)
    \/ CRankingStarted(fine) \/ CRankingStage(fine) \/ CRankingOk(fine)
    \/ CRankingRaise(fine)
    \/ CSetCompleted(fine) \/ CCompleteLog(fine)

Pipeline(fine) ==
    \/ Unattended(fine)
    \/ UConfirmed(fine)

\* ------------------------------------------------------------- main.py

\* -- confirm_product, confirm_variant, confirm_extraction

\* The request bodies: an index for the product and variant gates (pydantic
\* accepts any int), a flag for the url-extraction gate.
Requests ==
    [gate : {"product", "variant"}, index : -1..MaxCand, confirmed : {FALSE}]
    \cup [gate : {"url_extraction"}, index : {0}, confirmed : BOOLEAN]

\* session_manager.confirm_<gate>(...) for a request: its assignments and
\* its return value.
ManagerConfirm(s, req) ==
    CASE req.gate = "product" -> confirm_product(s, req.index)
      [] req.gate = "variant" -> confirm_variant(s, req.index)
      [] req.gate = "url_extraction" -> confirm_url_extraction(s, req.confirmed)

ManagerConfirmOk(s, req) ==
    CASE req.gate = "product" -> confirm_product_ok(s, req.index)
      [] req.gate = "variant" -> confirm_variant_ok(s, req.index)
      [] req.gate = "url_extraction" -> confirm_url_extraction_ok(s, req.confirmed)

\* The handler's answer when session_manager.confirm_<gate> returned False:
\* HTTP 400 "Invalid product index" / "Invalid variant index" /
\* "Failed to confirm extraction".
RefusedDetail(gate) ==
    IF gate = "url_extraction" THEN "failed_to_confirm" ELSE "invalid_index"

\* The answer of a handler to request req.
Response(req, detail) ==
    [gate |-> req.gate, index |-> req.index, confirmed |-> req.confirmed,
     detail |-> detail]

NoResponse ==
    [gate |-> "none", index |-> 0, confirmed |-> FALSE, detail |-> "none"]

\* The handler without its test of the needs flag; C6 tells it apart.
ConfirmCheck_untested ==
    /\ hgate = "none"
    /\ calls < MaxCalls
    /\ LockFree
    /\ \E g \in Gates : hgate' = g
    /\ calls' = calls + 1
    /\ UNCHANGED <<session, pending, resp, refused_open, pipeVars, calcVars, auxVars, streamVars, readerVars>>

\* The handler up to its call of the manager: get_session (HTTP 404 "Session
\* not found" when the record is gone), then the test of
\* needs_<gate>_confirmation (HTTP 400 "... confirmation not needed").  The
\* test does not read the request body, which is drawn where it is first
\* used.  The handlers are coroutines without an await, so the event loop
\* runs one request at a time; the run, a thread, may step in between.
ConfirmCheck ==
    /\ hgate = "none"
    /\ calls < MaxCalls
    /\ LockFree
    /\ \E g \in Gates :
          IF ~registered \/ ~NeedsFlag(session, g)
          THEN /\ \E req \in Requests :
                     /\ req.gate = g
                     /\ resp' = Response(req, IF registered THEN "not_needed"
                                                            ELSE "not_found")
               /\ UNCHANGED hgate
          ELSE /\ hgate' = g
               /\ UNCHANGED resp
    /\ calls' = calls + 1
    /\ UNCHANGED <<session, pending, refused_open, pipeVars, calcVars, auxVars, streamVars, readerVars>>

\* The call of the manager and the answer built from its return value.
\* refused_open records that the manager refused a request for a gate it
\* found open.
ConfirmCall ==
    /\ hgate # "none"
    /\ LockFree
    /\ \E req \in Requests :
          /\ req.gate = hgate
          /\ Registry(ManagerConfirm(session, req), FALSE)
          /\ resp' = Response(req, IF registered /\ ManagerConfirmOk(session, req)
                                   THEN "ok" ELSE RefusedDetail(req.gate))
          /\ refused_open' =
                IF NeedsFlag(session, req.gate) /\ ~ManagerConfirmOk(session, req)
                THEN refused_open \cup {req.gate} ELSE refused_open
    /\ hgate' = "none"
    /\ UNCHANGED <<calls, pipeVars, calcVars, auxVars, streamVars, readerVars>>

Confirm ==
    \/ ConfirmCheck
    \/ ConfirmCall

\* -- stream_progress.event_generator

\* get_session: when the record is gone, the 'error' event "Session expired"
\* and break.  Else the comparison of len(current_logs) with last_log_count
\* and the slice current_logs[last_log_count:], a copy.
StreamPoll ==
    /\ spc = "poll"
    /\ LockFree
    /\ IF ~registered
       THEN /\ terminal' = "error"
            /\ terminal_data' = Some("Session expired")
            /\ spc' = "closed"
            /\ UNCHANGED new_logs
       ELSE /\ IF Len(session.progress_logs) > last_log_count
               THEN /\ new_logs' = SubSeq(session.progress_logs, last_log_count + 1,
                                          Len(session.progress_logs))
                    /\ spc' = "yield"
               ELSE /\ spc' = "status"
                    /\ UNCHANGED new_logs
            /\ UNCHANGED <<terminal, terminal_data>>
    /\ UNCHANGED <<session, pending, pipeVars, calcVars, auxVars, handlerVars, readerVars,
                   last_log_count, received>>

\* for log in new_logs: yield the 'log' event.  received counts the 'log'
\* events sent: the event sent here is the consumer's (received + 1)-th.
StreamYield ==
    /\ spc = "yield"
    /\ received' = received + 1
    /\ new_logs' = Tail(new_logs)
    /\ spc' = IF Tail(new_logs) = <<>> THEN "count" ELSE "yield"
    /\ UNCHANGED <<session, pending, pipeVars, calcVars, auxVars, handlerVars, readerVars,
                   last_log_count, terminal, terminal_data>>

\* last_log_count = len(current_logs): current_logs is the record's own list.
StreamCount ==
    /\ spc = "count"
    /\ last_log_count' = Len(session.progress_logs)
    /\ spc' = "status"
    /\ UNCHANGED <<session, pending, pipeVars, calcVars, auxVars, handlerVars, readerVars,
                   new_logs, received, terminal, terminal_data>>

\* yield the 'status' event.
StreamStatus ==
    /\ spc = "status"
    /\ spc' = "final"
    /\ UNCHANGED <<session, pending, pipeVars, calcVars, auxVars, handlerVars, readerVars,
                   last_log_count, new_logs, received, terminal, terminal_data>>

\* The test of session.status: the terminal event, which carries
\* final_results or error_message as the record holds them at this moment,
\* and break; or sleep(1).
StreamFinal ==
    /\ spc = "final"
    /\ IF session.status \in {"completed", "failed"}
       THEN /\ terminal' = (IF session.status = "completed" THEN "complete" ELSE "error")
            /\ terminal_data' = (IF session.status = "completed"
                                 THEN session.final_results ELSE session.error_message)
            /\ spc' = "closed"
       ELSE /\ spc' = "poll"
            /\ UNCHANGED <<terminal, terminal_data>>
    /\ UNCHANGED <<session, pending, pipeVars, calcVars, auxVars, handlerVars, readerVars,
                   last_log_count, new_logs, received>>

Stream ==
    \/ StreamPoll \/ StreamYield \/ StreamCount \/ StreamStatus \/ StreamFinal

\* -- get_workflow_status, get_results

\* The fields get_workflow_status copies into its StatusResponse, in the
\* order it reads them.
StatusFields ==
    << "status", "current_stage",
       "needs_product_confirmation", "needs_variant_confirmation",
       "needs_url_extraction_confirmation",
       "product_candidates", "variant_candidates", "extracted_details",
       "final_results", "error_message" >>

\* The fields get_results reads: status for its test, then final_results.
ResultsFields ==
    << "status", "final_results" >>

Range(f) ==
    {f[i] : i \in DOMAIN f}

\* The record's values of the fields a status snapshot holds.
Project(s) ==
    [f \in Range(StatusFields) |-> s[f]]

\* get_session of either handler: the reader now holds the live record, or
\* answers HTTP 404 when the record is gone.
ReaderGet ==
    /\ rpc = "idle"
    /\ LockFree
    /\ \E kind \in {"status", "results"} : rpc' = IF registered THEN kind ELSE "not_found"
    /\ snap' = <<>>
    /\ seen' = {Project(session)}
    /\ UNCHANGED <<session, pending, pipeVars, calcVars, auxVars, handlerVars, streamVars>>

\* get_workflow_status: the next attribute read, without the lock.  With the
\* last read, seen takes in the record as the method in progress leaves it.
StatusRead ==
    /\ rpc = "status"
    /\ LET f == StatusFields[Len(snap) + 1]
       IN  snap' = Append(snap, session[f])
    /\ rpc' = IF Len(snap) + 1 = Len(StatusFields) THEN "status_done" ELSE "status"
    /\ seen' = IF Len(snap) + 1 = Len(StatusFields)
               THEN seen \cup {Project(ApplyAll(session, pending))}
               ELSE seen
    /\ UNCHANGED <<session, pending, pipeVars, calcVars, auxVars, handlerVars, streamVars>>

\* get_results: the read of status and, when it is "completed", the read of
\* final_results for the response; otherwise HTTP 400.
ResultsRead ==
    /\ rpc = "results"
    /\ LET f == ResultsFields[Len(snap) + 1]
       IN  snap' = Append(snap, session[f])
    /\ rpc' = IF Len(snap) = 0
              THEN (IF session.status # "completed" THEN "results_conflict" ELSE "results")
              ELSE "results_ok"
    /\ UNCHANGED <<session, pending, pipeVars, calcVars, auxVars, handlerVars, streamVars, seen>>

\* The response is sent; the client may ask again.
ReaderReturn ==
    /\ rpc \in {"status_done", "results_conflict", "results_ok", "not_found"}
    /\ rpc' = "idle"
    /\ snap' = <<>>
    /\ seen' = {}
    /\ UNCHANGED <<session, pending, pipeVars, calcVars, auxVars, handlerVars, streamVars>>

Reader ==
    \/ ReaderGet \/ StatusRead \/ ResultsRead \/ ReaderReturn

\* One assignment of the method that holds the lock.  When it is the last,
\* the lock is released; seen collects the record as it stands between
\* methods while a reader is reading.
WriteStep ==
    /\ pending # <<>>
    /\ session' = ApplyWrite(session, Head(pending))
    /\ pending' = Tail(pending)
    /\ seen' = IF rpc \in {"status", "results"} /\ Tail(pending) = <<>>
               THEN seen \cup {Project(session')}
               ELSE seen
    /\ UNCHANGED <<pipeVars, calcVars, auxVars, handlerVars, streamVars, rpc, snap>>

\* ------------------------------------- per-unit pricing and ranking stages

\* -- the data

\* url_data["price"] as the scraper leaves it: None, the string "null", a
\* string float() rejects, or a number, kept here in thousandths.
NoPrice == [kind |-> "none", mills |-> 0]
NullPrice == [kind |-> "null", mills |-> 0]
TextPrice == [kind |-> "text", mills |-> 0]
NumPrice(m) == [kind |-> "num", mills |-> m]

\* url_data.get("per_unit_price"): the key is absent, or holds None, the
\* string "null", or a "%.2f" string, kept here in hundredths.
Absent == [kind |-> "absent", cents |-> 0]
NonePerUnit == [kind |-> "none", cents |-> 0]
NullPerUnit == [kind |-> "null", cents |-> 0]
PerUnit(c) == [kind |-> "num", cents |-> c]

\* The MRP collaborator's parsed answer: the target's MRP and the MRPs of the
\* listed products.  _validate_mrp_data rejects an empty product list, which
\* stands here for every answer that fails to parse or validate.
Mrp(original, products) == [original |-> original, products |-> products]
NoMrp == Mrp(0, <<>>)

\* The answers drawn for a combo: none; the target listed with one other
\* product; a list that leaves the target out; MRPs that sum to 0.
MrpResponses ==
    {NoMrp, Mrp(500, <<500, 500>>), Mrp(500, <<200>>), Mrp(0, <<0>>)}

Offer(type, price, mrp) ==
    [product_type |-> type, price |-> price, mrp |-> mrp, per_unit_price |-> Absent]

\* The offers the scraping stage can hand to the pricing stage.
EnrichedOffers ==
    {Offer("individual", p, NoMrp) :
        p \in {NoPrice, NullPrice, TextPrice, NumPrice(249990), NumPrice(1005)}}
    \cup {Offer("unknown", p, NoMrp) : p \in {NoPrice, NumPrice(249990)}}
    \cup {Offer("combo", NoPrice, NoMrp)}
    \cup {Offer("combo", NumPrice(750000), m) : m \in MrpResponses}

\* The per_unit_price values the ranking stage provides for.
PerUnitInputs ==
    {Absent, NonePerUnit, NullPerUnit, PerUnit(15000), PerUnit(30000)}

RankingOffers ==
    {[Offer("unknown", NoPrice, NoMrp) EXCEPT !.per_unit_price = p] : p \in PerUnitInputs}

\* The lists of at most max offers of a set; url numbers the offers in
\* their discovery order.
OfferLists(S, max) ==
    UNION {{[i \in 1..n |-> [url |-> i] @@ f[i]] : f \in [1..n -> S]} : n \in 0..max}

\* -- price enrichment: ApifyPriceScraper._merge_data

ScrapedUrls == {"a", "b"}

\* The discovered URLs: url and product_type, and with them the answer the
\* MRP collaborator will give for the URL when the pricing stage asks.
OriginalUrls ==
    {[url |-> u, product_type |-> "individual", mrp |-> NoMrp] : u \in ScrapedUrls}
    \cup {[url |-> u, product_type |-> "combo", mrp |-> Mrp(500, <<500, 500>>)] :
             u \in ScrapedUrls}

\* result["offers"]: None for the empty dict of _create_empty_results, or
\* Some(price) with price None when the dict has no "price", in thousandths.
ApifyOffers ==
    {None, Some(None), Some(Some(0)), Some(Some(249990))}

\* The items of the scraper's dataset: an item without a url, or an item for
\* a URL.
ApifyResults ==
    {[url |-> "", offers |-> None]}
    \cup {[url |-> u, offers |-> o] : u \in ScrapedUrls, o \in ApifyOffers}

ListsUpTo(S, max) ==
    UNION {[1..n -> S] : n \in 0..max}

\* offers and offers.get("price"): neither an empty dict, nor a missing
\* price, nor 0.
HasPrice(offers) ==
    /\ offers # None
    /\ offers[1] # None
    /\ offers[1][1] # 0

Enriched(original, price, availability) ==
    [url |-> original.url, availability |-> availability]
        @@ Offer(original.product_type, price, original.mrp)

\* One iteration of the merge loop; apify_data is apify_lookup.get(url).
MergedUrl(original, apify_data) ==
    IF apify_data = None
    THEN Enriched(original, NoPrice, "unavailable")
    ELSE IF HasPrice(apify_data[1].offers)
    THEN Enriched(original, NumPrice(apify_data[1].offers[1][1]), "in_stock")
    ELSE Enriched(original, NoPrice, "out_of_stock")

\* apify_lookup.get(url): the last item with that url, items without a url
\* left out.
apify_lookup(results, url) ==
    LET hits == {j \in 1..Len(results) : results[j].url # "" /\ results[j].url = url}
    IN  IF hits = {}
        THEN None
        ELSE Some(results[CHOOSE j \in hits : \A k \in hits : k <= j])

merge_data(originals, results) ==
    [i \in 1..Len(originals) |->
        MergedUrl(originals[i], apify_lookup(results, originals[i].url))]

\* -- per-unit pricing

RECURSIVE SumSeq(_)
SumSeq(q) ==
    IF q = <<>> THEN 0 ELSE Head(q) + SumSeq(Tail(q))

\* round(x, 2) and "%.2f" of the non-negative x = num / den hundredths: the
\* nearest hundredth.  On a decimal tie the result follows the binary float,
\* which may lie on either side.
RoundCents(num, den) ==
    LET q == num \div den
        r == num % den
    IN  IF 2 * r < den THEN {q}
        ELSE IF 2 * r > den THEN {q + 1}
        ELSE {q, q + 1}

\* extract_product_mrps: the data for the calculation, or None.
extract_product_mrps(mrp) ==
    IF mrp.products = <<>>
    THEN None
    ELSE Some([original_mrp |-> mrp.original, sum_of_mrps |-> SumSeq(mrp.products)])

\* _calculate_price: round(original_mrp / sum_of_mrps * combo_sale_price, 2).
\* The division raises when sum_of_mrps is 0.
calculate_price(mrp_data, mills) ==
    IF mrp_data.sum_of_mrps = 0
    THEN {}
    ELSE RoundCents(mrp_data.original_mrp * mills, mrp_data.sum_of_mrps * 10)

\* calculate_combo_pricing: the per-unit prices it can return; None when the
\* extraction gave nothing or the calculation raised.
calculate_combo_pricing(mrp, mills) ==
    LET mrp_data == extract_product_mrps(mrp)
    IN  IF mrp_data = None \/ calculate_price(mrp_data[1], mills) = {}
        THEN {NonePerUnit}
        ELSE {PerUnit(c) : c \in calculate_price(mrp_data[1], mills)}

\* A loop that prices every offer with a numeric price as an individual one,
\* whatever its type; C19 tells it apart.
PricedOffer_any_type(url_data) ==
    IF url_data.price.kind \in {"none", "null", "text"}
    THEN {url_data}
    ELSE {[url_data EXCEPT !.per_unit_price = PerUnit(c)] :
             c \in RoundCents(url_data.price.mills, 10)}

\* One iteration of the stage's loop: what is appended to updated_urls.
PricedOffer(url_data) ==
    IF url_data.price.kind \in {"none", "null", "text"}
    THEN {url_data}
    ELSE IF url_data.product_type = "individual"
    THEN {[url_data EXCEPT !.per_unit_price = PerUnit(c)] :
             c \in RoundCents(url_data.price.mills, 10)}
    ELSE IF url_data.product_type = "combo"
    THEN {[url_data EXCEPT !.per_unit_price = p] :
             p \in calculate_combo_pricing(url_data.mrp, url_data.price.mills)}
    ELSE {url_data}

calcRest == <<session, pending, pipeVars, handlerVars, streamVars, readerVars, auxVars>>

\* ComboPricingAgent() is built before the loop; it raises without an API
\* key, and the stage's except passes enriched_urls on as they are.
PricingRaise ==
    /\ cpc = "pricing"
    /\ updated_urls = <<>>
    /\ updated_urls' = enriched_urls
    /\ cpc' = "priced_warning"
    /\ UNCHANGED <<enriched_urls, ranked_urls, reranked_urls, calcRest>>

PricingLoop ==
    /\ cpc = "pricing"
    /\ Len(updated_urls) < Len(enriched_urls)
    /\ \E u \in PricedOffer(enriched_urls[Len(updated_urls) + 1]) :
          updated_urls' = Append(updated_urls, u)
    /\ UNCHANGED <<cpc, enriched_urls, ranked_urls, reranked_urls, calcRest>>

PricingDone ==
    /\ cpc = "pricing"
    /\ Len(updated_urls) = Len(enriched_urls)
    /\ cpc' = "priced"
    /\ UNCHANGED <<enriched_urls, updated_urls, ranked_urls, reranked_urls, calcRest>>

\* enrich_urls returns: enriched_urls is the merge of the discovered URLs
\* with whatever the scraper's batches returned.
ScrapingStage ==
    /\ cpc = "scraping"
    /\ enriched_urls' = merge_data(original_urls, apify_results)
    /\ cpc' = "pricing"
    /\ UNCHANGED <<updated_urls, ranked_urls, reranked_urls, calcRest>>

\* -- ranking

HasPerUnit(u) ==
    u.per_unit_price.kind \notin {"absent", "none", "null"}

\* An insertion in front of the elements with an equal key, which makes the
\* sort unstable; C17 tells it apart.
InsertSorted_before_equal(x, sorted) ==
    LET behind == {i \in 0..Len(sorted) :
                      \A j \in 1..i : sorted[j].per_unit_price.cents < x.per_unit_price.cents}
        k == CHOOSE i \in behind : \A j \in behind : j <= i
    IN  SubSeq(sorted, 1, k) \o <<x>> \o SubSeq(sorted, k + 1, Len(sorted))

\* list.sort(key=...) is stable: an element goes behind the elements whose
\* key is less than or equal to its own.
InsertSorted(x, sorted) ==
    LET behind == {i \in 0..Len(sorted) :
                      \A j \in 1..i : sorted[j].per_unit_price.cents <= x.per_unit_price.cents}
        k == CHOOSE i \in behind : \A j \in behind : j <= i
    IN  SubSeq(sorted, 1, k) \o <<x>> \o SubSeq(sorted, k + 1, Len(sorted))

RECURSIVE SortByPerUnit(_)
SortByPerUnit(q) ==
    IF q = <<>>
    THEN <<>>
    ELSE InsertSorted(q[Len(q)], SortByPerUnit(SubSeq(q, 1, Len(q) - 1)))

\* A ranking that puts the offers without a per-unit price first; C16 tells
\* it apart.
Rank_without_first(urls) ==
    SelectSeq(urls, LAMBDA u : ~HasPerUnit(u))
        \o SortByPerUnit(SelectSeq(urls, HasPerUnit))

\* A ranking that leaves out the offers without a per-unit price; C30 tells
\* it apart.
Rank_priced_only(urls) ==
    SortByPerUnit(SelectSeq(urls, HasPerUnit))

\* with_per_unit sorted, then without_per_unit.
Rank(urls) ==
    SortByPerUnit(SelectSeq(urls, HasPerUnit))
        \o SelectSeq(urls, LAMBDA u : ~HasPerUnit(u))

RankingStage ==
    /\ cpc = "ranking"
    /\ ranked_urls' = Rank(updated_urls)
    /\ cpc' = "ranked"
    /\ UNCHANGED <<enriched_urls, updated_urls, reranked_urls, calcRest>>

\* The pricing stage is over, with or without its warning.
RankingStarted ==
    /\ cpc \in {"priced", "priced_warning"}
    /\ cpc' = "ranking"
    /\ UNCHANGED <<enriched_urls, updated_urls, ranked_urls, reranked_urls, calcRest>>

\* The stage's except: ranked_urls = updated_urls.
RankingRaise ==
    /\ cpc = "ranking"
    /\ ranked_urls' = updated_urls
    /\ cpc' = "ranked_warning"
    /\ UNCHANGED <<enriched_urls, updated_urls, reranked_urls, calcRest>>

\* session_manager.set_completed(session_id, ranked_urls)
Completed ==
    /\ cpc \in {"ranked", "ranked_warning"}
    /\ session' = ApplyAll(session, set_completed(session, ranked_urls))
    /\ cpc' = "completed"
    /\ UNCHANGED <<enriched_urls, updated_urls, ranked_urls, reranked_urls,
                   pending, pipeVars, handlerVars, streamVars, readerVars, auxVars>>

\* The ranking applied to its own output.
RankingAgain ==
    /\ cpc = "ranked"
    /\ reranked_urls' = Rank(ranked_urls)
    /\ cpc' = "reranked"
    /\ UNCHANGED <<enriched_urls, updated_urls, ranked_urls, calcRest>>

\* --------------------------------------------------------- specifications

\* After create_session and thread.start(): start_workflow admits only the
\* input types "keyword" and "url".
InitSession ==
    /\ session \in {WorkflowSession(t) : t \in {"keyword", "url"}}
    /\ pending = <<>>
    /\ pc = "start"
    /\ loc = LocInit
    /\ stage_errors = <<>>
    /\ hgate = "none"
    /\ resp = NoResponse
    /\ calls = 0
    /\ refused_open = {}
    /\ spc = "poll"
    /\ last_log_count = 0
    /\ new_logs = <<>>
    /\ received = 0
    /\ terminal = "none"
    /\ terminal_data = None
    /\ rpc = "idle"
    /\ snap = <<>>
    /\ seen = {}

\* The session model does not carry the offers through the tail; the two
\* stages that compute on them are specified on their own below.
CalcIdle ==
    /\ cpc = "idle"
    /\ enriched_urls = <<>>
    /\ updated_urls = <<>>
    /\ ranked_urls = <<>>
    /\ reranked_urls = <<>>

\* The record is registered; the cleanup and the merge are specified on
\* their own below.
AuxIdle ==
    /\ registered = TRUE
    /\ evicted_at = "none"
    /\ sessions = <<>>
    /\ now = 0
    /\ swept = None
    /\ original_urls = <<>>
    /\ apify_results = <<>>

Init ==
    InitSession /\ CalcIdle /\ AuxIdle

\* The run and the clients' confirmation requests.
Next ==
    \/ Pipeline(FALSE)
    \/ Confirm

Spec ==
    Init /\ [][Next]_vars

\* The run, confirm requests and one consumer of the progress stream.
NextStream ==
    \/ Unattended(FALSE)
    \/ Stream

SpecStream ==
    Init /\ [][NextStream]_vars

\* The run, confirm requests and one client reading status or results,
\* with every method's assignments done one at a time.
NextFine ==
    \/ Unattended(TRUE)
    \/ WriteStep
    \/ Reader

SpecFine ==
    Init /\ [][NextFine]_vars

\* The run and one consumer of the progress stream, with every method's
\* assignments done one at a time: the stream reads the record it got from
\* get_session without the lock.
NextStreamFine ==
    \/ Unattended(TRUE)
    \/ WriteStep
    \/ Stream

SpecStreamFine ==
    Init /\ [][NextStreamFine]_vars

\* The run when no confirm request is ever made.  The run is a thread of its
\* own, which the scheduler does not starve.
SpecUnattended ==
    Init /\ [][Unattended(FALSE)]_vars /\ WF_vars(Unattended(FALSE))

\* The run and confirm requests, the run's thread never starved.
SpecAttended ==
    Init /\ [][Next]_vars /\ WF_vars(Pipeline(FALSE))

\* The run, confirm requests, and a cleanup that may remove the record
\* while the run is in progress; the run's thread is never starved.
NextEvict ==
    \/ Pipeline(FALSE)
    \/ Confirm
    \/ Evict

SpecEvict ==
    Init /\ [][NextEvict]_vars /\ WF_vars(Pipeline(FALSE))

\* One cleanup of a registry of records in any status, marked or not, at
\* any time after their last mutation.
InitCleanup ==
    /\ InitSession
    /\ CalcIdle
    /\ registered = TRUE
    /\ evicted_at = "none"
    /\ sessions \in [SessionIds -> {CleanupRecord(st) : st \in Statuses}]
    /\ now = 0
    /\ swept = None
    /\ original_urls = <<>>
    /\ apify_results = <<>>

NextCleanup ==
    \/ ClockTick
    \/ SessionTouched
    \/ MarkForCleanup
    \/ Cleanup

SpecCleanup ==
    InitCleanup /\ [][NextCleanup]_vars

\* The pricing stage on every list of offers the scraping stage can give it.
InitPricing ==
    /\ InitSession
    /\ AuxIdle
    /\ cpc = "pricing"
    /\ enriched_urls \in OfferLists(EnrichedOffers, MaxPriced)
    /\ updated_urls = <<>>
    /\ ranked_urls = <<>>
    /\ reranked_urls = <<>>

NextPricing ==
    \/ PricingRaise
    \/ PricingLoop
    \/ PricingDone

SpecPricing ==
    InitPricing /\ [][NextPricing]_vars

\* The offers from the scraper's answer to final_results: every list of
\* discovered URLs against every list of items the scraper can return.
InitOffers ==
    /\ InitSession
    /\ registered = TRUE
    /\ evicted_at = "none"
    /\ sessions = <<>>
    /\ now = 0
    /\ swept = None
    /\ original_urls \in ListsUpTo(OriginalUrls, MaxScraped)
    /\ apify_results \in ListsUpTo(ApifyResults, MaxScraped)
    /\ cpc = "scraping"
    /\ enriched_urls = <<>>
    /\ updated_urls = <<>>
    /\ ranked_urls = <<>>
    /\ reranked_urls = <<>>

NextOffers ==
    \/ ScrapingStage
    \/ PricingRaise
    \/ PricingLoop
    \/ PricingDone
    \/ RankingStarted
    \/ RankingStage
    \/ RankingRaise
    \/ Completed

SpecOffers ==
    InitOffers /\ [][NextOffers]_vars

\* The ranking stage on every list of offers it provides for.
InitRanking ==
    /\ InitSession
    /\ AuxIdle
    /\ cpc = "ranking"
    /\ enriched_urls = <<>>
    /\ updated_urls \in OfferLists(RankingOffers, MaxOffers)
    /\ ranked_urls = <<>>
    /\ reranked_urls = <<>>

NextRanking ==
    \/ RankingStage
    \/ RankingAgain

SpecRanking ==
    InitRanking /\ [][NextRanking]_vars

\* ------------------------------------------------------------------ claims

Terminal(s) ==
    s.status \in {"completed", "failed"}

\* C1: once status is completed or failed, no later operation changes
\* current_stage, status or final_results -- also not a confirm call that
\* arrives after a gate wait has timed out.
C1_TerminalIsFinal ==
    [][Terminal(session) =>
          /\ session'.status = session.status
          /\ session'.current_stage = session.current_stage
          /\ session'.final_results = session.final_results]_vars

\* C2: the 'log' events a stream consumer has received are a gap-free,
\* duplicate-free prefix of progress_logs: it never holds more events than
\* there are entries, and the event about to be sent, the consumer's
\* (received + 1)-th, is entry number received + 1 of the log.
C2_LogPrefix ==
    /\ received <= Len(session.progress_logs)
    /\ spc = "yield" => Head(new_logs) = session.progress_logs[received + 1]

\* C3: when the stream has closed with its terminal event, the consumer has
\* received every entry the run appends, the last one included.
C3_StreamComplete ==
    (spc = "closed" /\ pc = "done") => received = Len(session.progress_logs)

\* C4: get_results answers with success only for a completed session and
\* every success carries the final results; in every other status it
\* answers with the state-conflict error.
C4_ResultsComplete ==
    /\ rpc = "results_ok" => (snap[1] = "completed" /\ snap[2] # None)
    /\ rpc = "results_conflict" => snap[1] # "completed"

\* C5: every status snapshot equals the record's field values at one single
\* instant between registry operations: one of the instants from get_session
\* to the return of the operation in progress at the last read.
C5_SnapshotAtOneInstant ==
    rpc = "status_done" =>
        \E p \in seen : \A i \in DOMAIN StatusFields : snap[i] = p[StatusFields[i]]

\* A handler's step that answers a request for gate g: either the needs
\* test refuses it at once, or the manager call returns.
Answers(g) ==
    \/ hgate = "none" /\ calls' = calls + 1 /\ hgate' = "none" /\ resp'.gate = g
    \/ hgate = g /\ hgate' = "none"

CandidatesOf(s, g) ==
    IF g = "product" THEN s.product_candidates ELSE s.variant_candidates

ConfirmedIndexOf(s, g) ==
    IF g = "product" THEN s.confirmed_product_index ELSE s.confirmed_variant_index

\* The fields a refused resolve has to leave alone.
GateFields ==
    {"current_stage", "status",
     "needs_product_confirmation", "product_candidates", "confirmed_product_index",
     "needs_variant_confirmation", "variant_candidates", "confirmed_variant_index",
     "needs_url_extraction_confirmation", "extracted_details", "url_extraction_confirmed"}

\* C6: a product or variant resolve that takes effect while the gate's flag
\* is false is answered with the state-conflict error ("... confirmation not
\* needed"), never with the validation error, and leaves current_stage,
\* status and all gate fields as they were -- two racing resolves included.
C6_ClosedGateConflict ==
    [][\A g \in {"product", "variant"} :
          (Answers(g) /\ ~NeedsFlag(session, g)) =>
              /\ resp'.detail = "not_needed"
              /\ resp'.gate = g
              /\ \A f \in GateFields : session'[f] = session[f]]_vars

\* The second of two resolves of the same gate: the first went through, the
\* second was answered with the state conflict.
C6_Witness ==
    /\ resp.detail = "not_needed"
    /\ resp.gate \in {"product", "variant"}
    /\ ConfirmedIndexOf(session, resp.gate) # None
    /\ CandidatesOf(session, resp.gate) # <<>>

\* C7: a product or variant resolve on an open gate with an index outside
\* [0, len(candidates)) is refused and leaves the whole record unchanged
\* (last_updated and the open flag included); with an index inside the range
\* it succeeds, so a valid resolve after a refused one still goes through.
C7_InvalidIndexNoChange ==
    [][\A g \in {"product", "variant"} :
          (hgate = g /\ hgate' = "none" /\ NeedsFlag(session, g)) =>
              IF 0 <= resp'.index /\ resp'.index < Len(CandidatesOf(session, g))
              THEN /\ resp'.detail = "ok"
                   /\ ~NeedsFlag(session', g)
                   /\ ConfirmedIndexOf(session', g) = Some(resp'.index)
                   /\ session'.status = "running"
              ELSE /\ resp'.detail = "invalid_index"
                   /\ resp'.gate = g
                   /\ session' = session]_vars

\* A resolve went through on a gate that had refused an invalid index while open.
C7_Witness ==
    /\ resp.detail = "ok"
    /\ resp.gate \in {"product", "variant"} \cap refused_open
    /\ ~NeedsFlag(session, resp.gate)

GateStage(g) ==
    CASE g = "product" -> "product_confirmation"
      [] g = "variant" -> "variant_confirmation"
      [] g = "url_extraction" -> "url_extraction_confirmation"

LastLog(s) ==
    s.progress_logs[Len(s.progress_logs)]

\* With no confirm request ever made: while the wait lasts the session is
\* not failed and the timeout has not elapsed; the wait ends only when the
\* timeout has elapsed; after it the session is failed and the run has
\* logged nothing more, changed no stage and completed nothing.
C8_Safety ==
    \A g \in Gates : loc.gate = g =>
        /\ session.status = "failed" => loc.elapsed >= GateTimeout
        /\ pc \in {"wait_poll", "wait_sleep"} =>
              /\ loc.elapsed < GateTimeout
              /\ session.status = "waiting_confirmation"
        /\ pc = "wait_timeout" => loc.elapsed >= GateTimeout
        /\ pc \notin {"wait_poll", "wait_sleep", "wait_timeout"} =>
              /\ session.status = "failed"
              /\ pc \in {AfterWait(g), "u_rejected", "done"}
              /\ session.current_stage = GateStage(g)
              /\ session.final_results = None
              /\ LastLog(session).stage = GateStage(g)
              /\ LastLog(session).status = "waiting"

\* C8: a gate that is opened and never resolved does not fail the session
\* before the timeout has elapsed, does fail it once the timeout has
\* elapsed, and the run then executes no further stage and returns.
C8_GateTimeout ==
    /\ []C8_Safety
    /\ (loc.gate # "none") ~> (session.status = "failed" /\ pc = "done")

\* The run has returned after a wait that timed out.
C8_Witness ==
    /\ loc.gate # "none"
    /\ loc.elapsed = GateTimeout
    /\ session.status = "failed"
    /\ pc = "done"

\* The gate has been opened and a resolve has closed it.
Resolved(s, g) ==
    /\ ~NeedsFlag(s, g)
    /\ CASE g = "product" -> s.product_candidates # <<>>
         [] g = "variant" -> s.variant_candidates # <<>>
         [] g = "url_extraction" -> s.extracted_details # None

\* C9: a session whose gate a resolve has closed is not marked failed with
\* that gate's timeout message.
C9_NoTimeoutAfterResolve ==
    \A g \in Gates :
        Resolved(session, g) =>
            ~(session.status = "failed" /\ session.error_message = Some(TimeoutMessage(g)))

WarningStages ==
    {"per_unit_pricing", "ranking"}

\* The stage of the last 'started' entry of the log.
LastStarted(s) ==
    LET started == SelectSeq(s.progress_logs, LAMBDA e : e.status = "started")
    IN  started[Len(started)].stage

\* The error e of a stage has failed the session and halted the run.
FailedBy(e) ==
    /\ session.status = "failed"
    /\ session.error_message = Some(e.message)
    /\ session.final_results = None
    /\ pc = "done"
    /\ LastStarted(session) = e.stage

C11_AtMostOneGateOpen ==
    Cardinality({g \in Gates : NeedsFlag(session, g)}) <= 1

\* The variant gate is open in a session whose product wait had timed out.
C11_Witness ==
    /\ session.needs_variant_confirmation
    /\ session.error_message = Some(TimeoutMessage("product"))
    /\ session.status = "waiting_confirmation"

\* C12: between registry operations, final_results is set if and only if
\* status is completed.
C12_ResultsIffCompleted ==
    (session.final_results # None) <=> (session.status = "completed")

\* The run has completed and stored its ranked list.
C12_Witness ==
    /\ session.status = "completed"
    /\ session.final_results = Some(loc.ranked_urls)
    /\ pc = "done"

\* C13: a session whose error_message is set has status failed.
C13_ErrorOnlyWhenFailed ==
    session.error_message # None => session.status = "failed"

IsPrefix(a, b) ==
    /\ Len(a) <= Len(b)
    /\ \A i \in DOMAIN a : a[i] = b[i]

\* C14: progress_logs is append-only: every step leaves the earlier log as a
\* prefix of the later one, and adds at most one entry, at the end, stamped
\* later than every entry before it (the order of the run's calls).
C14_LogAppendOnly ==
    [][LET old == session.progress_logs
           new == session'.progress_logs
       IN  /\ IsPrefix(old, new)
           /\ Len(new) <= Len(old) + 1
           /\ \A i \in DOMAIN old :
                 Len(new) > Len(old) => old[i].timestamp < new[Len(new)].timestamp]_vars

\* The log holds the entries of more than one stage.
C14_Witness ==
    /\ Len(session.progress_logs) >= 3
    /\ session.progress_logs[1].stage # LastLog(session).stage

\* The fixed stage order of the query entry variant.
QueryStageOrder ==
    << "initializing", "parsing", "product_search", "product_confirmation",
       "variant_extraction", "variant_confirmation", "url_discovery",
       "price_scraping", "per_unit_pricing", "ranking", "complete" >>

\* The fixed stage order of the url entry variant.
UrlStageOrder ==
    << "initializing", "url_extraction", "url_extraction_confirmation",
       "url_discovery", "price_scraping", "per_unit_pricing", "ranking",
       "complete" >>

StageOrderOf(s) ==
    IF s.input_type = "keyword" THEN QueryStageOrder ELSE UrlStageOrder

StageRank(s) ==
    CHOOSE i \in DOMAIN StageOrderOf(s) : StageOrderOf(s)[i] = s.current_stage

\* C15: current_stage is always a stage of the entry variant's order and no
\* step moves it backwards in that order, so successive polls never see it
\* regress.
C15_StageNeverRegresses ==
    [][/\ session'.current_stage \in Range(StageOrderOf(session'))
       /\ StageRank(session) <= StageRank(session')]_vars

\* A query session that passed both gates has reached the last stage.
C15_Witness ==
    /\ session.input_type = "keyword"
    /\ session.current_stage = "complete"
    /\ session.confirmed_product_index # None
    /\ session.confirmed_variant_index # None

\* An offer whose per_unit_price is null, the string "null", or absent.
NullPerUnitPrice(u) ==
    u.per_unit_price.kind \in {"none", "null", "absent"}

C17_RankIdempotent ==
    cpc = "reranked" => reranked_urls = ranked_urls

\* A list with two equal prices that the ranking had to reorder was ranked twice.
C17_Witness ==
    /\ cpc = "reranked"
    /\ ranked_urls # updated_urls
    /\ \E i, j \in DOMAIN ranked_urls :
          /\ i < j
          /\ ~NullPerUnitPrice(ranked_urls[i])
          /\ ranked_urls[i].per_unit_price = ranked_urls[j].per_unit_price

\* C18: a bundle offer with a numeric raw price whose MRP extraction
\* succeeds gets per_unit_price = round(P_target / S * raw_price, 2), where
\* S is the sum of the listed reference prices and P_target is one term of
\* S, so that per_unit_price never exceeds the raw price.
C18_BundlePerUnit ==
    \A i \in DOMAIN updated_urls :
        LET u == updated_urls[i]
        IN  (cpc \in {"pricing", "priced"} /\ u.product_type = "combo"
                /\ u.per_unit_price.kind = "num") =>
               /\ u.per_unit_price.cents
                     \in RoundCents(u.mrp.original * u.price.mills, SumSeq(u.mrp.products) * 10)
               /\ \E j \in DOMAIN u.mrp.products : u.mrp.products[j] = u.mrp.original
               /\ u.per_unit_price.cents * 10 <= u.price.mills

\* An offer the pricing stage has to price: a numeric raw price, and either
\* individual or a bundle whose MRP extraction succeeded with a sum other
\* than 0.
Priceable(e) ==
    /\ e.price.kind = "num"
    /\ \/ e.product_type = "individual"
       \/ /\ e.product_type = "combo"
          /\ e.mrp.products # <<>>
          /\ SumSeq(e.mrp.products) # 0

\* What C19 says of the offer e given to the stage and the offer u passed on.
PricedAsSpecified(e, u) ==
    /\ u.per_unit_price.kind = "num" <=> Priceable(e)
    /\ (Priceable(e) /\ e.product_type = "individual") =>
          u.per_unit_price.cents \in RoundCents(e.price.mills, 10)
    /\ ~Priceable(e) => NullPerUnitPrice(u)
    /\ u.price = e.price
    /\ u.url = e.url

ProductsReturned ==
    /\ session.input_type = "keyword"
    /\ pc \notin {"start", "k_parse_stage", "k_parse_call", "k_search_log",
                  "k_search_stage", "k_search_call"}
    /\ stage_errors = <<>> \/ stage_errors[1].stage \notin {"parsing", "product_search"}
          \/ stage_errors[1].message = "No products found"

\* Variant resolution ended without a gate: the query specified the variant,
\* or the variant search returned at most one.
VariantUngated ==
    /\ loc.selected_variant # None
    /\ loc.has_variant \/ Len(loc.variants) <= 1

\* What holds of a query-entry session at every instant.
C20_Always ==
    session.input_type = "keyword" =>
        /\ session.needs_product_confirmation => Len(loc.products_found) > 1
        /\ session.needs_variant_confirmation =>
              Len(loc.variants) > 1 /\ ~loc.has_variant
        /\ ~session.needs_url_extraction_confirmation
        /\ session.status = "waiting_confirmation" =>
              \/ session.needs_product_confirmation
              \/ session.needs_variant_confirmation
        /\ Len(loc.products_found) = 0 =>
              /\ StageRank(session) <= StageRank([session EXCEPT !.current_stage = "product_search"])
              /\ pc \notin {"k_variant", "c_discovery_log"}
        /\ (Len(loc.products_found) = 1 /\ pc # "k_select") =>
              /\ loc.confirmed_product = Some(loc.products_found[1])
              /\ session.confirmed_product_index = None
              /\ session.product_candidates = <<>>
        /\ loc.has_variant =>
              /\ loc.variants = <<>>
              /\ session.current_stage \notin {"variant_extraction", "variant_confirmation"}
              /\ loc.selected_variant \in {None, Some(Variant("user_specified", 0))}
        /\ (~loc.has_variant /\ VariantUngated) =>
              /\ session.confirmed_variant_index = None
              /\ session.variant_candidates = <<>>
              /\ loc.selected_variant =
                    IF Len(loc.variants) = 0 THEN Some(Variant("standard", 0))
                                             ELSE Some(Variant("found", loc.variants[1]))
        /\ (Len(loc.products_found) = 1 /\ VariantUngated) =>
              /\ \A g \in Gates : ~NeedsFlag(session, g)
              /\ \A i \in DOMAIN session.progress_logs :
                    session.progress_logs[i].status # "waiting"

\* C20: a query-entry session opens a gate only when its search returned more
\* than one candidate: 0 products fails the session and runs no later stage,
\* exactly 1 product is auto-picked, variant resolution is skipped when the
\* query specified a variant and auto-picks on 0 or 1 variants; with exactly
\* 1 product and at most 1 variant the session reaches current_stage
\* url_discovery with no needs flag ever true and status never
\* waiting_confirmation.
C20_GateOnlyWhenSeveral ==
    /\ []C20_Always
    /\ (ProductsReturned /\ Len(loc.products_found) = 0)
          ~> (pc = "done" /\ session.status = "failed"
                 /\ session.current_stage = "product_search")
    /\ (ProductsReturned /\ Len(loc.products_found) = 1 /\ VariantUngated
           /\ pc \in {"c_discovery_log", "c_discovery_stage"})
          ~> (session.current_stage = "url_discovery" /\ session.status = "running"
                 /\ \A g \in Gates : ~NeedsFlag(session, g))

\* One product was found and the one variant found was picked, and the
\* session is at url_discovery without a gate having been opened.
C20_Witness ==
    /\ session.input_type = "keyword"
    /\ Len(loc.products_found) = 1
    /\ ~loc.has_variant
    /\ Len(loc.variants) = 1
    /\ session.current_stage = "url_discovery"
    /\ session.status = "running"
    /\ \A i \in DOMAIN session.progress_logs : session.progress_logs[i].status # "waiting"

\* The url-extraction gate was opened and a reject has closed it.
Rejected(s) ==
    /\ s.input_type = "url"
    /\ s.extracted_details # None
    /\ ~s.needs_url_extraction_confirmation
    /\ ~s.url_extraction_confirmed

\* A resolve call has just returned success for gate g.
Succeeds(g) ==
    /\ hgate = g
    /\ hgate' = "none"
    /\ resp'.detail = "ok"

\* What holds at every instant after the reject.
C21_AfterReject ==
    Rejected(session) =>
        /\ session.status = "failed"
        /\ session.error_message # None
        /\ session.final_results = None
        /\ \A i \in DOMAIN session.progress_logs :
              session.progress_logs[i].stage # "url_discovery"
        /\ pc \in {"u_waiting", "wait_poll", "wait_sleep", "wait_timeout", "u_after",
                  "u_rejected", "done"}
        /\ pc = "done" =>
              session.error_message \in {Some("User rejected URL extraction"),
                                         Some("User rejected extraction")}

\* C21: in a URL-entry session, rejecting the open url-extraction gate sets
\* needs_url_extraction_confirmation false and status failed with an
\* error_message starting with 'User rejected', and from then on the run
\* executes no shared-tail stage: no url_discovery 'started' entry is logged
\* and the session never becomes completed.
C21_RejectHalts ==
    /\ []C21_AfterReject
    /\ [][(Succeeds("url_extraction") /\ ~resp'.confirmed) =>
             /\ session.needs_url_extraction_confirmation
             /\ ~session'.needs_url_extraction_confirmation
             /\ session'.status = "failed"
             /\ session'.error_message = Some("User rejected URL extraction")]_vars

\* The reject was answered with success and the run has returned.
C21_Witness ==
    /\ Rejected(session)
    /\ resp.gate = "url_extraction"
    /\ ~resp.confirmed
    /\ resp.detail = "ok"
    /\ pc = "done"

\* C24: whenever the run fails a session (gate timeout, empty product or URL
\* result, collaborator error), the session ends with status failed, a
\* non-empty error_message and a last log entry that records the failure
\* (status 'error'); the last log entry of a failed session is never a
\* 'success' or 'waiting' entry.
C24_FailureLogged ==
    (pc = "done" /\ calls = 0 /\ session.status # "completed") =>
        /\ session.status = "failed"
        /\ session.error_message # None
        /\ session.progress_logs # <<>>
        /\ LastLog(session).status = "error"

\* C26: for each gate, after the gate has timed out and the run has
\* returned, the session's error_message is that gate's own timeout message
\* and has not been replaced by any other message.
C26_TimeoutMessageKept ==
    \A g \in Gates :
        (loc.gate = g /\ loc.elapsed >= GateTimeout /\ pc = "done") =>
            session.error_message = Some(TimeoutMessage(g))

\* C29: for each gate, among any number of resolve calls at most one returns
\* success; the recorded confirmed index is the index passed by that call,
\* lies within the bounds of the gate's candidate list and never changes
\* afterwards; and the candidate the run continues with is the one at that
\* index.
C29_OneResolveWins ==
    [][/\ \A g \in Gates :
             /\ Succeeds(g) => (~Resolved(session, g) /\ Resolved(session', g))
             /\ Resolved(session, g) => Resolved(session', g)
       /\ \A g \in {"product", "variant"} :
             /\ Succeeds(g) =>
                   /\ ConfirmedIndexOf(session', g) = Some(resp'.index)
                   /\ resp'.index \in 0..(Len(CandidatesOf(session', g)) - 1)
             /\ Resolved(session, g) =>
                   ConfirmedIndexOf(session', g) = ConfirmedIndexOf(session, g)
       /\ (pc = "k_product_after" /\ pc' = "k_variant") =>
             /\ Resolved(session, "product")
             /\ loc'.confirmed_product =
                   Some(session.product_candidates[session.confirmed_product_index[1] + 1])
       /\ (pc = "k_variant_after" /\ pc' = "c_discovery_log") =>
             /\ Resolved(session, "variant")
             /\ loc'.selected_variant =
                   Some(Variant("found",
                                session.variant_candidates[session.confirmed_variant_index[1] + 1]))
      ]_vars

\* The second of two product candidates was confirmed after a first request
\* had been made, and the run went on with it.
C29_Witness ==
    /\ calls = 2
    /\ Len(session.product_candidates) = 2
    /\ session.confirmed_product_index = Some(1)
    /\ loc.confirmed_product = Some(2)

\* C22: if cleanup_old_sessions removes a session's record while its run is
\* still in progress, then from the run's next attempt to mutate the record
\* the run aborts silently: it invokes no further collaborator and starts no
\* later stage.
C22_SilentAbort ==
    ~registered =>
        /\ pc \in CollaboratorCalls => pc = evicted_at
        /\ evicted_at \in {"wait_poll", "wait_sleep"} =>
              pc \in {"wait_poll", "wait_sleep", AfterWait(loc.gate), "u_rejected", "done"}

\* C23: one call of cleanup_old_sessions removes exactly the records for
\* which (a) a cleanup time is set and reached, regardless of status, or (b)
\* status is running or waiting_confirmation and now - last_updated exceeds
\* the inactivity timeout; every other record stays present with all fields
\* unchanged, so a completed or failed record with no cleanup scheduled is
\* never removed.
C23_SweepExact ==
    swept # None =>
        LET S == swept[1].sessions
            t == swept[1].now
        IN  /\ DOMAIN sessions \subseteq DOMAIN S
            /\ \A sid \in DOMAIN S :
                  LET r == S[sid]
                  IN  IF \/ r.cleanup_after # None /\ t >= r.cleanup_after[1]
                         \/ /\ r.status \in {"running", "waiting_confirmation"}
                            /\ t - r.last_updated > SessionTimeout
                      THEN sid \notin DOMAIN sessions
                      ELSE sid \in DOMAIN sessions /\ sessions[sid] = r

\* One cleanup removed a completed record whose cleanup time was reached and
\* kept a running record that was inactive for exactly the timeout.
C23_Witness ==
    /\ swept # None
    /\ \E a, b \in DOMAIN swept[1].sessions :
          /\ swept[1].sessions[a].status = "completed"
          /\ swept[1].sessions[a].cleanup_after # None
          /\ a \notin DOMAIN sessions
          /\ swept[1].sessions[b].status = "running"
          /\ swept[1].now - swept[1].sessions[b].last_updated = SessionTimeout
          /\ b \in DOMAIN sessions

\* C28: every offer produced by price enrichment has availability
\* in_stock or out_of_stock when its price is present and availability
\* unavailable when its price is absent, for every scrape outcome of its URL.
C28_AvailabilityByPrice ==
    cpc # "scraping" =>
        \A i \in 1..Len(enriched_urls) :
            /\ enriched_urls[i].price # NoPrice =>
                  enriched_urls[i].availability \in {"in_stock", "out_of_stock"}
            /\ enriched_urls[i].price = NoPrice =>
                  enriched_urls[i].availability = "unavailable"

\* What price enrichment returned for an offer, without what later stages add.
AsEnriched(u) ==
    [url |-> u.url, product_type |-> u.product_type, price |-> u.price,
     availability |-> u.availability]

\* C30: the final_results of a completed session is a permutation of the
\* offers returned by price enrichment: every enriched offer appears exactly
\* once, none is dropped or duplicated, whether per-unit pricing and ranking
\* succeeded or took their warning path after an exception.
C30_FinalIsPermutation ==
    cpc = "completed" =>
        /\ session.status = "completed"
        /\ session.final_results # None
        /\ LET final == session.final_results[1]
               n == Len(enriched_urls)
           IN  /\ Len(final) = n
               /\ \E p \in [1..n -> 1..n] :
                     /\ \A i, j \in 1..n : p[i] = p[j] => i = j
                     /\ \A i \in 1..n : AsEnriched(final[i]) = AsEnriched(enriched_urls[p[i]])

\* A session completed with the enriched offers in another order: an offer
\* without a price, enriched first, is behind a priced one in final_results.
C30_Witness ==
    /\ cpc = "completed"
    /\ session.final_results # None
    /\ Len(enriched_urls) = 2
    /\ enriched_urls[1].price = NoPrice
    /\ session.final_results[1][2].price = NoPrice
    /\ session.final_results[1][1].price # NoPrice
    /\ session.final_results[1][1].url # session.final_results[1][2].url

\* C27: every pipeline run terminates, whether or not any confirmation is
\* ever submitted and whether or not its record is evicted; a gate wait never
\* lasts longer than the gate timeout; and at the moment the run terminates
\* with its record still present, the status is completed or failed.
C27_RunTerminates ==
    /\ <>(pc = "done")
    /\ [](loc.elapsed <= GateTimeout)
    /\ [][pc # "done" /\ pc' = "done" /\ registered'
             => session'.status \in {"completed", "failed"}]_vars

\* A run has returned from a gate wait during which its record was removed.
C27_Witness ==
    /\ pc = "done"
    /\ ~registered
    /\ evicted_at \in {"wait_poll", "wait_sleep"}

\* C25: every progress stream that ends has emitted exactly one terminal
\* event, and it is the last event: 'complete' carrying the final_results
\* when the session completed, 'error' carrying the session's error_message
\* when it failed, or 'error' when the record has disappeared; no 'log' or
\* 'status' event follows it.
C25_OneTerminalEvent ==
    /\ [](spc = "closed" =>
            /\ terminal \in {"complete", "error"}
            /\ terminal = "complete" =>
                  /\ session.status = "completed"
                  /\ terminal_data # None
                  /\ terminal_data = session.final_results
            /\ terminal = "error" =>
                  \/ terminal_data = Some("Session expired")
                  \/ session.status = "failed" /\ terminal_data # None)
    /\ [][spc = "closed" => UNCHANGED streamVars]_vars

====
